---- MODULE Spec2Model ----
(***************************************************************************)
(* A model of src/main.py, the CMS "Hospitals" dataset downloader.         *)
(*                                                                         *)
(* Text the code manipulates (modified stamps, media types, titles, CSV    *)
(* payloads) is a sequence of one-character strings; a URL is a sequence   *)
(* of tokens ("/", "?", ".", names).  A JSON object is a record whose      *)
(* optional keys may be missing from its DOMAIN.  Every d.get(k) of the    *)
(* code is followed by "or <default>", so a missing key, a null and an     *)
(* empty value are read alike: Get returns the empty value for all three.  *)
(***************************************************************************)
EXTENDS Integers, Sequences, FiniteSets, TLC

VARIABLES
    \* ---- the environment: disk and remote catalog
    disk,        \* content of the state directory, by file name
    outFiles,    \* content of the output directory, by file name
    catalog,     \* what GET DATASETS_URL answers (a sequence of items)
    catalogOk,   \* whether that request succeeds (else it raises)
    K,           \* CONCURRENCY
    \* ---- main()
    mainpc,      \* where main() is
    run,         \* number of the current run (what utc_now_iso() returns)
    state,       \* the in-memory Run-State
    items,       \* the themed datasets fetch_hospital_datasets returned
    idx,         \* index of the next item of the scheduling loop
    tasks,       \* the tasks created, in creation order
    sem,         \* free slots of the semaphore
    \* ---- observations
    httpGets,    \* HTTP GET requests issued in this run
    saves,       \* calls of save_state in this run
    initDisk,    \* disk when the run started
    history,     \* how each earlier run ended
    \* ---- harness of the pure functions
    fin,         \* input
    fout,        \* output
    fpc          \* "in" before the call, "out" after it, "off" when unused

vars == << disk, outFiles, catalog, catalogOk, K, mainpc, run, state, items, idx, tasks,
           sem, httpGets, saves, initDisk, history, fin, fout, fpc >>

envVars  == << disk, outFiles, catalog, catalogOk, K >>
mainVars == << mainpc, run, state, items, idx, tasks, sem >>
obsVars  == << httpGets, saves, initDisk, history >>
funVars  == << fin, fout, fpc >>

-----------------------------------------------------------------------------
(* Bounds *)

MaxItems == 2       \* items in the catalog
MaxDists == 2       \* distribution descriptors of one item (function harness)
MaxK     == 2       \* largest CONCURRENCY tried
MaxRuns  == 2       \* runs of the program in the repeated-run specification
MaxText  == 5       \* characters of a CSV payload
MaxUrl   == 4       \* characters of a URL (function harness)
MaxLabel == 4       \* characters of a column label (function harness)
MaxBytes == 3       \* bytes of a payload after its run of ASCII bytes

-----------------------------------------------------------------------------
(* Text helpers *)

Get(d, k, default) == IF k \in DOMAIN d THEN d[k] ELSE default

UpperLetters ==
    << "A", "B", "C", "D", "E", "F", "G", "H", "I", "J", "K", "L", "M",
       "N", "O", "P", "Q", "R", "S", "T", "U", "V", "W", "X", "Y", "Z" >>

LowerLetters ==
    << "a", "b", "c", "d", "e", "f", "g", "h", "i", "j", "k", "l", "m",
       "n", "o", "p", "q", "r", "s", "t", "u", "v", "w", "x", "y", "z" >>

\* str.lower() of one character
LowerChar(c) ==
    IF \E i \in 1..26 : UpperLetters[i] = c
    THEN LowerLetters[CHOOSE i \in 1..26 : UpperLetters[i] = c]
    ELSE c

Lower(s) == [i \in 1..Len(s) |-> LowerChar(s[i])]

IsSpace(c) == c \in {" ", "\t", "\n", "\r"}

RECURSIVE LStrip(_)
LStrip(s) == IF s # <<>> /\ IsSpace(Head(s)) THEN LStrip(Tail(s)) ELSE s

RECURSIVE RStrip(_)
RStrip(s) ==
    IF s # <<>> /\ IsSpace(s[Len(s)]) THEN RStrip(SubSeq(s, 1, Len(s) - 1)) ELSE s

\* str.strip()
Strip(s) == RStrip(LStrip(s))

TextCsv == << "t", "e", "x", "t", "/", "c", "s", "v" >>

Hospitals == << "h", "o", "s", "p", "i", "t", "a", "l", "s" >>

-----------------------------------------------------------------------------
(* fetch_hospital_datasets: the theme filter *)

IsHospital(item) ==
    LET themes == Get(item, "theme", <<>>)
    IN  \E i \in 1..Len(themes) : Lower(Strip(themes[i])) = Hospitals

RECURSIVE FilterHospitals(_)
FilterHospitals(its) ==
    IF its = <<>> THEN <<>>
    ELSE IF IsHospital(Head(its))
         THEN << Head(its) >> \o FilterHospitals(Tail(its))
         ELSE FilterHospitals(Tail(its))

-----------------------------------------------------------------------------
(* distributions_to_download *)

\* ds_id = item.get("identifier") or item.get("id") or "unknown"
DsId(item) ==
    IF Get(item, "identifier", "") # "" THEN item.identifier
    ELSE IF Get(item, "id", "") # "" THEN item.id
    ELSE "unknown"

\* ds_title = (item.get("title") or f"dataset_{ds_id}").strip()
DsTitle(item) ==
    Strip(IF Get(item, "title", <<>>) # <<>> THEN item.title
          ELSE << "dataset_", DsId(item) >>)

\* modified = (item.get("modified") or "").strip()
DsModified(item) == Strip(Get(item, "modified", <<>>))

\* variant, for comparison: no dataset is ever taken for unchanged
IsUnchangedNever(st, id, modified) == FALSE

\* ds_state = state["datasets"].get(ds_id)
\* ds_state and ds_state.get("modified") == modified
IsUnchanged(st, id, modified) ==
    /\ id \in DOMAIN st.datasets
    /\ DOMAIN st.datasets[id] # {}
    /\ "modified" \in DOMAIN st.datasets[id]
    /\ st.datasets[id].modified = modified

\* variant, for comparison: the media type is compared as it is written
MediaOfCaseSensitive(d) == Get(d, "mediaType", <<>>)

\* media = (d.get("mediaType") or "").lower()
MediaOf(d) == Lower(Get(d, "mediaType", <<>>))

\* url = d.get("downloadURL") or d.get("accessURL")
UrlOf(d) ==
    IF Get(d, "downloadURL", <<>>) # <<>> THEN d.downloadURL
    ELSE Get(d, "accessURL", <<>>)

\* media == "text/csv" and url
IsEligible(d) == MediaOf(d) = TextCsv /\ UrlOf(d) # <<>>

RECURSIVE EligibleTuples(_, _, _, _)
EligibleTuples(ds, id, title, modified) ==
    IF ds = <<>> THEN <<>>
    ELSE IF IsEligible(Head(ds))
         THEN << << UrlOf(Head(ds)), id, title, modified >> >>
              \o EligibleTuples(Tail(ds), id, title, modified)
         ELSE EligibleTuples(Tail(ds), id, title, modified)

distributions_to_download(item, st) ==
    IF IsUnchanged(st, DsId(item), DsModified(item)) THEN <<>>
    ELSE EligibleTuples(Get(item, "distribution", <<>>),
                        DsId(item), DsTitle(item), DsModified(item))

-----------------------------------------------------------------------------
(* Output path: Path(url.split("?")[0]).stem or "file", then "__snake.csv" *)

\* url.split("?")[0]
RECURSIVE BeforeQuery(_)
BeforeQuery(url) ==
    IF url = <<>> \/ Head(url) = "?" THEN <<>>
    ELSE << Head(url) >> \o BeforeQuery(Tail(url))

\* pathlib drops the empty and the "." segments of a path when it parses it
IsPathPart(seg) == seg # <<>> /\ seg # << "." >>

\* Path(...).name: the last segment pathlib keeps
RECURSIVE LastSegment(_, _, _)
LastSegment(path, cur, last) ==
    IF path = <<>> THEN (IF IsPathPart(cur) THEN cur ELSE last)
    ELSE IF Head(path) = "/"
         THEN LastSegment(Tail(path), <<>>, IF IsPathPart(cur) THEN cur ELSE last)
         ELSE LastSegment(Tail(path), cur \o << Head(path) >>, last)

\* name.rfind("."), counted from 1; 0 when the name has no dot
LastDot(name) ==
    IF \E i \in 1..Len(name) : name[i] = "."
    THEN CHOOSE i \in 1..Len(name) :
            name[i] = "." /\ \A j \in (i + 1)..Len(name) : name[j] # "."
    ELSE 0

\* PurePath.stem: the name up to its last dot, when that dot is neither the
\* first nor the last character of the name
StemOfName(name) ==
    IF 1 < LastDot(name) /\ LastDot(name) < Len(name)
    THEN SubSeq(name, 1, LastDot(name) - 1)
    ELSE name

\* Path(url.split("?")[0]).stem
StemOf(url) == StemOfName(LastSegment(BeforeQuery(url), <<>>, <<>>))

OutName(url) ==
    (IF StemOf(url) # <<>> THEN StemOf(url) ELSE << "file" >>) \o << "__snake.csv" >>

-----------------------------------------------------------------------------
(* The environment of a run *)

U1 == << "https:", "/", "/", "e", ".", "gov", "/", "a", ".", "csv" >>
U2 == << "https:", "/", "/", "e", ".", "gov", "/", "d", "/", "a", ".", "csv", "?", "v=2" >>
U3 == << "https:", "/", "/", "e", ".", "gov", "/", "b", ".", "csv" >>

Pdf == << "p", "d", "f" >>

D1   == [mediaType |-> TextCsv, downloadURL |-> U1]
D3   == [mediaType |-> << "T", "e", "x", "t", "/", "C", "S", "V" >>, accessURL |-> U3]
DPdf == [mediaType |-> Pdf, downloadURL |-> U2]

HospitalTheme == << << "H", "o", "s", "p", "i", "t", "a", "l", "s", " " >> >>
OtherTheme    == << << "N", "u", "r", "s", "i", "n", "g" >> >>

M1 == << "m" >>
M2 == << "n" >>

\* Catalog items of a run: dataset "A" and a dataset without identifier (they
\* write different output files), each at two modified stamps; "A" with no
\* eligible distribution; and a dataset of another theme.
RunItems ==
    { [identifier |-> "A", theme |-> HospitalTheme, modified |-> m,
       distribution |-> << D1 >>] : m \in {M1, M2} }
    \cup { [theme |-> HospitalTheme, modified |-> m, distribution |-> << D3 >>] :
              m \in {M1, M2} }
    \cup { [identifier |-> "A", theme |-> HospitalTheme, modified |-> M2,
            distribution |-> << DPdf >>],
           [identifier |-> "A", theme |-> OtherTheme, modified |-> M2,
            distribution |-> << D1 >>] }

RECURSIVE SeqsUpTo(_, _)
SeqsUpTo(S, n) ==
    IF n = 0 THEN { <<>> }
    ELSE LET shorter == SeqsUpTo(S, n - 1)
         IN  shorter \cup { Append(q, x) : q \in shorter, x \in S }

Catalogs == SeqsUpTo(RunItems, MaxItems)

STATE_FILE == "cms_hospitals_state.json"

\* STATE_FILE.with_suffix(".tmp")
TmpOf(path) == "cms_hospitals_state.tmp"

Absent  == [kind |-> "absent"]
Garbage == [kind |-> "garbage"]
Old     == [kind |-> "old"]

\* A JSON file of Run-State st of which `written` has reached the disk:
\* 0 nothing (the file was just opened), 1 a proper prefix, 2 all of it.
JsonFile(st, written) == [kind |-> "json", val |-> st, written |-> written]

DefaultState == [last_run |-> 0, datasets |-> <<>>]

Record(modified, now) == [modified |-> modified, last_seen |-> now]

\* Run-States a first run may find on disk (written by a run 0)
InitStates ==
    { [last_run |-> 0, datasets |-> ds] :
        ds \in { [A |-> Record(M1, 0)], [unknown |-> Record(M1, 0)] } }

InitDisks ==
    { [f \in {STATE_FILE, TmpOf(STATE_FILE)} |->
          IF f = STATE_FILE THEN c ELSE Absent] :
        c \in {Absent, Garbage} \cup { JsonFile(st, 2) : st \in InitStates } }

OutNames == { OutName(u) : u \in {U1, U3} }

FunOff == fin = <<>> /\ fout = <<>> /\ fpc = "off"

Init ==
    /\ disk \in InitDisks
    /\ \E c \in {Absent, Old} : outFiles = [n \in OutNames |-> c]
    /\ catalog \in Catalogs
    /\ catalogOk \in BOOLEAN
    /\ K \in 1..MaxK
    /\ mainpc = "start"
    /\ run = 1
    /\ state = DefaultState
    /\ items = <<>>
    /\ idx = 1
    /\ tasks = <<>>
    /\ sem = 0
    /\ httpGets = 0
    /\ saves = 0
    /\ initDisk = disk
    /\ history = <<>>
    /\ FunOff

-----------------------------------------------------------------------------
(* load_state *)

\* json.load of a file: it parses only a complete JSON text
Parses(file) == file.kind = "json" /\ file.written = 2

\* load_state raises (json.JSONDecodeError) on a file that exists and does not parse
LoadFails(file) == file.kind # "absent" /\ ~Parses(file)

load_state(file) == IF file.kind = "absent" THEN DefaultState ELSE file.val

\* variant, for comparison: a state file that does not parse is taken for an empty one
AfterLoadFailureReset == "fetch"

\* main, line 202: nothing catches what load_state raises; main() ends there
AfterLoadFailure == "load_failed"

\* main, lines 201-202: ensure_dirs(); state = load_state()
LoadState ==
    /\ mainpc = "start"
    /\ IF LoadFails(disk[STATE_FILE])
       THEN /\ mainpc' = AfterLoadFailure
            /\ state' = state
       ELSE /\ mainpc' = "fetch"
            /\ state' = load_state(disk[STATE_FILE])
    /\ UNCHANGED << run, items, idx, tasks, sem >>
    /\ UNCHANGED << envVars, obsVars, funVars >>

-----------------------------------------------------------------------------
(* main, lines 216-219: the catalog fetch, then the semaphore *)

\* main, line 216: nothing catches what the catalog request raises
AfterFetchFailure == "fetch_failed"

Fetch ==
    /\ mainpc = "fetch"
    /\ httpGets' = httpGets + 1
    /\ IF catalogOk
       THEN /\ items' = FilterHospitals(catalog)
            /\ mainpc' = "schedule"
       ELSE /\ items' = <<>>
            /\ mainpc' = AfterFetchFailure
    /\ idx' = 1
    /\ sem' = IF mainpc' = "schedule" THEN K ELSE sem
    /\ UNCHANGED << run, state, tasks >>
    /\ UNCHANGED << envVars, saves, initDisk, history, funVars >>

-----------------------------------------------------------------------------
(* main, lines 222-240: the scheduling loop, one item per step.  The loop  *)
(* never awaits, so no task runs before it ends.                           *)

NewTask(tuple) ==
    [url |-> tuple[1], id |-> tuple[2], modified |-> tuple[4],
     pc |-> "new", res |-> "pending", errs |-> 0, env |-> "none"]

\* variant, for comparison: launching a task writes no record
SetRecordSkipped(st, id, modified, now) == st

\* state["datasets"][ds_id] = {"modified": modified, "last_seen": utc_now_iso()}
SetRecord(st, id, modified, now) ==
    [st EXCEPT !.datasets =
        [x \in DOMAIN st.datasets \cup {id} |->
            IF x = id THEN Record(modified, now) ELSE st.datasets[x]]]

RECURSIVE Launch(_, _, _, _)
\* the inner loop over the work tuples of one item: << tasks, state >> after it
Launch(tuples, ts, st, now) ==
    IF tuples = <<>> THEN << ts, st >>
    ELSE Launch(Tail(tuples),
                Append(ts, NewTask(Head(tuples))),
                SetRecord(st, Head(tuples)[2], Head(tuples)[4], now),
                now)

ScheduleItem ==
    /\ mainpc = "schedule"
    /\ idx <= Len(items)
    /\ LET after == Launch(distributions_to_download(items[idx], state),
                           tasks, state, run)
       IN  /\ tasks' = after[1]
           /\ state' = after[2]
    /\ idx' = idx + 1
    /\ UNCHANGED << mainpc, run, items, sem >>
    /\ UNCHANGED << envVars, obsVars, funVars >>

\* lines 242-243: if tasks: await asyncio.gather(*tasks)
EndSchedule ==
    /\ mainpc = "schedule"
    /\ idx > Len(items)
    /\ mainpc' = IF tasks # <<>> THEN "gather" ELSE "stamp"
    /\ UNCHANGED << run, state, items, idx, tasks, sem >>
    /\ UNCHANGED << envVars, obsVars, funVars >>

-----------------------------------------------------------------------------
(* process_distribution.  A task runs only while main() is suspended: in   *)
(* gather, or in the session's exit after gather raised.  Its only         *)
(* suspension points are the semaphore and the download; what follows the  *)
(* download runs to the task's end in one step.                            *)

TaskIds == 1..Len(tasks)

\* variant, for comparison: the event loop runs tasks whatever main() is doing
TasksMayRunAnytime == TRUE

TasksMayRun == mainpc \in {"gather", "unwind"}

InFlight == { t \in TaskIds : tasks[t].pc = "inflight" }

Waiting == { t \in TaskIds : tasks[t].pc = "waiting" }

\* variant, for comparison: the gate lets every task through
CanAcquireUngated(t) == TRUE

\* asyncio.Semaphore: a slot is free and no earlier waiter is queued
CanAcquire(t) == sem > 0 /\ \A w \in Waiting : w >= t

\* line 157, first step of a task (tasks start in creation order)
Start(t) ==
    /\ TasksMayRun
    /\ tasks[t].pc = "new"
    /\ \A u \in 1..(t - 1) : tasks[u].pc # "new"
    /\ IF CanAcquire(t)
       THEN /\ tasks' = [tasks EXCEPT ![t].pc = "inflight"]
            /\ sem' = sem - 1
            /\ httpGets' = httpGets + 1
       ELSE /\ tasks' = [tasks EXCEPT ![t].pc = "waiting"]
            /\ UNCHANGED << sem, httpGets >>
    /\ UNCHANGED << mainpc, run, state, items, idx >>
    /\ UNCHANGED << envVars, saves, initDisk, history, funVars >>

\* line 157, a waiter woken by a release; line 159 issues the request
Acquire(t) ==
    /\ TasksMayRun
    /\ tasks[t].pc = "waiting"
    /\ CanAcquire(t)
    /\ tasks' = [tasks EXCEPT ![t].pc = "inflight"]
    /\ sem' = sem - 1
    /\ httpGets' = httpGets + 1
    /\ UNCHANGED << mainpc, run, state, items, idx >>
    /\ UNCHANGED << envVars, saves, initDisk, history, funVars >>

\* variant, for comparison: the download's failure is not caught
OnDownloadErrorRaise(task) == [task EXCEPT !.pc = "done", !.res = "raised"]

\* lines 160-165: the download raised
OnDownloadError(task) ==
    [task EXCEPT !.pc = "done", !.res = "none", !.errs = @ + 1]

\* `env` records what the environment did to the task: "dlfail", or one of Outcomes
Met(task, what) == [task EXCEPT !.env = what]

DownloadFails(t) ==
    /\ TasksMayRun
    /\ tasks[t].pc = "inflight"
    /\ tasks' = [tasks EXCEPT ![t] = OnDownloadError(Met(tasks[t], "dlfail"))]
    /\ sem' = sem + 1
    /\ UNCHANGED << mainpc, run, state, items, idx >>
    /\ UNCHANGED << envVars, obsVars, funVars >>

\* What can happen after the download returned (lines 167-195):
\*   "ok"     the file is written;
\*   "mkdir"  out_dir.mkdir raises (line 170, outside any try);
\*   "open"   open(out_path, "w") raises (line 175);
\*   "write"  the CSV reader or the writer raises after the file was opened
\*            and truncated (lines 176-185).
Outcomes == {"ok", "mkdir", "open", "write"}

\* An output file of this program: `by` is the task that opened it last,
\* `rows` the rows it holds, each marked with the task that wrote it, and
\* `complete` whether its writer reached the end of the payload.
CsvFile(owner, complete, rows) ==
    [kind |-> "csv", by |-> owner, complete |-> complete, rows |-> rows]

\* variant, for comparison: the file is opened for appending
OpenedForAppend(file, owner) ==
    IF file.kind = "csv" THEN [file EXCEPT !.by = owner, !.complete = FALSE]
    ELSE CsvFile(owner, FALSE, <<>>)

\* line 175: open(out_path, "w") creates the file or empties it
Opened(file, owner) == CsvFile(owner, FALSE, <<>>)

\* lines 180-185: n rows written by the task
Written(file, n) == [file EXCEPT !.rows = @ \o [i \in 1..n |-> file.by]]

\* the end of the with block of line 175 after the last row
Finished(file) == [file EXCEPT !.complete = TRUE]

\* the task after lines 167-195
OnProcessed(task, outcome) ==
    CASE outcome = "ok"    -> [task EXCEPT !.pc = "done", !.res = "path"]
      [] outcome = "mkdir" -> [task EXCEPT !.pc = "done", !.res = "raised"]
      [] OTHER             -> [task EXCEPT !.pc = "done", !.res = "none",
                                           !.errs = @ + 1]

\* the output directory after lines 170-185: a payload is a header and one
\* more row; a failure of the reader or the writer comes after the header
WriteOutput(files, url, owner, outcome) ==
    CASE outcome = "ok" ->
            [files EXCEPT ![OutName(url)] = Finished(Written(Opened(@, owner), 2))]
      [] outcome = "write" ->
            [files EXCEPT ![OutName(url)] = Written(Opened(@, owner), 1)]
      [] OTHER -> files

DownloadReturns(t) ==
    /\ TasksMayRun
    /\ tasks[t].pc = "inflight"
    /\ sem' = sem + 1
    /\ \E outcome \in Outcomes :
          /\ tasks' = [tasks EXCEPT ![t] = OnProcessed(Met(tasks[t], outcome), outcome)]
          /\ outFiles' = WriteOutput(outFiles, tasks[t].url, << run, t >>, outcome)
    /\ UNCHANGED << mainpc, run, state, items, idx >>
    /\ UNCHANGED << disk, catalog, catalogOk, K, obsVars, funVars >>

-----------------------------------------------------------------------------
(* main, lines 242-243: asyncio.gather *)

AllDone == \A t \in TaskIds : tasks[t].pc = "done"

SomeRaised == \E t \in TaskIds : tasks[t].res = "raised"

\* variant, for comparison: main waits for the first task only
GatherReadyFirst == \E t \in TaskIds : tasks[t].pc = "done"

\* gather returns once every task has completed
GatherReady == AllDone

GatherReturns ==
    /\ mainpc = "gather"
    /\ GatherReady
    /\ ~SomeRaised
    /\ mainpc' = "stamp"
    /\ UNCHANGED << run, state, items, idx, tasks, sem >>
    /\ UNCHANGED << envVars, obsVars, funVars >>

\* gather (return_exceptions=False) raises the first exception of a task into
\* main(), which leaves the session and ends without saving
GatherRaises ==
    /\ mainpc = "gather"
    /\ SomeRaised
    /\ mainpc' = "unwind"
    /\ UNCHANGED << run, state, items, idx, tasks, sem >>
    /\ UNCHANGED << envVars, obsVars, funVars >>

\* asyncio.run cancels the tasks still pending when main() has raised
Cancelled(task) ==
    IF task.pc = "done" THEN task ELSE [task EXCEPT !.pc = "done", !.res = "cancelled"]

CancelPending ==
    /\ mainpc = "unwind"
    /\ mainpc' = "aborted"
    /\ tasks' = [t \in TaskIds |-> Cancelled(tasks[t])]
    /\ sem' = sem + Cardinality(InFlight)
    /\ UNCHANGED << run, state, items, idx >>
    /\ UNCHANGED << envVars, obsVars, funVars >>

-----------------------------------------------------------------------------
(* main, lines 245-246, and save_state *)

\* state["last_run"] = utc_now_iso()
Stamp ==
    /\ mainpc = "stamp"
    /\ state' = [state EXCEPT !.last_run = run]
    /\ mainpc' = "save"
    /\ UNCHANGED << run, items, idx, tasks, sem >>
    /\ UNCHANGED << envVars, obsVars, funVars >>

\* variant, for comparison: save_state writes the state file in place
SavePathInPlace == STATE_FILE

\* line 61: the path save_state writes to
SavePath == TmpOf(STATE_FILE)

\* line 62: open(tmp, "w") creates or truncates the file
SaveOpen ==
    /\ mainpc = "save"
    /\ saves' = saves + 1
    /\ disk' = [disk EXCEPT ![SavePath] = JsonFile(state, 0)]
    /\ mainpc' = "save_write"
    /\ UNCHANGED << run, state, items, idx, tasks, sem >>
    /\ UNCHANGED << outFiles, catalog, catalogOk, K, httpGets, initDisk, history, funVars >>

\* line 63: json.dump writes the text piece by piece; leaving the with block
\* closes the file once all of it is written
SaveWrite ==
    /\ mainpc = "save_write"
    /\ disk' = [disk EXCEPT ![SavePath].written = @ + 1]
    /\ mainpc' = IF disk[SavePath].written = 1 THEN "save_replace" ELSE "save_write"
    /\ UNCHANGED << run, state, items, idx, tasks, sem >>
    /\ UNCHANGED << outFiles, catalog, catalogOk, K, obsVars, funVars >>

\* os.replace(src, dst)
Replace(d, src, dst) ==
    IF src = dst THEN d ELSE [d EXCEPT ![dst] = d[src], ![src] = Absent]

\* line 64: tmp.replace(STATE_FILE)
SaveReplace ==
    /\ mainpc = "save_replace"
    /\ disk' = Replace(disk, SavePath, STATE_FILE)
    /\ mainpc' = "done"
    /\ UNCHANGED << run, state, items, idx, tasks, sem >>
    /\ UNCHANGED << outFiles, catalog, catalogOk, K, obsVars, funVars >>

SaveSteps == {"save", "save_write", "save_replace"}

\* the process is killed (power loss, SIGKILL) somewhere in save_state
Crash ==
    /\ mainpc \in SaveSteps
    /\ mainpc' = "crashed"
    /\ UNCHANGED << run, state, items, idx, tasks, sem >>
    /\ UNCHANGED << envVars, obsVars, funVars >>

Terminal == {"done", "load_failed", "fetch_failed", "aborted", "crashed"}

-----------------------------------------------------------------------------
(* One run of the program *)

\* a step of main()
MainStep ==
    \/ LoadState
    \/ Fetch
    \/ ScheduleItem
    \/ EndSchedule
    \/ GatherReturns
    \/ GatherRaises
    \/ CancelPending
    \/ Stamp
    \/ SaveOpen
    \/ SaveWrite
    \/ SaveReplace

\* the event loop resumes a task at the gate
GateStep == \E t \in TaskIds : Start(t) \/ Acquire(t)

\* a download request ends, with the payload or with an exception
DownloadStep == \E t \in TaskIds : DownloadFails(t) \/ DownloadReturns(t)

Next ==
    \/ MainStep
    \/ GateStep
    \/ DownloadStep
    \/ Crash

Spec == Init /\ [][Next]_vars

-----------------------------------------------------------------------------
(* One run that is not killed, in which every request ends and the event   *)
(* loop runs whatever is ready                                             *)

NextLive == MainStep \/ GateStep \/ DownloadStep

Fairness ==
    /\ WF_vars(MainStep)
    /\ WF_vars(GateStep)
    /\ WF_vars(DownloadStep)

SpecLive == Init /\ [][NextLive]_vars /\ Fairness

-----------------------------------------------------------------------------
(* The program run again, after a run that completed, on the same catalog  *)
(* and on the disk that run left                                           *)

Rerun ==
    /\ mainpc = "done"
    /\ run < MaxRuns
    /\ history' = Append(history, [outcome |-> mainpc, launched |-> Len(tasks)])
    /\ run' = run + 1
    /\ mainpc' = "start"
    /\ state' = DefaultState
    /\ items' = <<>>
    /\ idx' = 1
    /\ tasks' = <<>>
    /\ sem' = 0
    /\ httpGets' = 0
    /\ saves' = 0
    /\ initDisk' = disk
    /\ UNCHANGED << envVars, funVars >>

NextRepeat == Next \/ Rerun

SpecRepeat == Init /\ [][NextRepeat]_vars

-----------------------------------------------------------------------------
(* distributions_to_download called on its own, on one item and one        *)
(* Run-State                                                               *)

\* main() does not run in the specifications of the single functions
MainOff ==
    /\ disk = [f \in {STATE_FILE, TmpOf(STATE_FILE)} |-> Absent]
    /\ outFiles = [n \in OutNames |-> Absent]
    /\ catalog = <<>>
    /\ catalogOk = TRUE
    /\ K = 1
    /\ mainpc = "off"
    /\ run = 1
    /\ state = DefaultState
    /\ items = <<>>
    /\ idx = 1
    /\ tasks = <<>>
    /\ sem = 0
    /\ httpGets = 0
    /\ saves = 0
    /\ initDisk = disk
    /\ history = <<>>

SelIdParts ==
    { <<>>, [identifier |-> "A"], [id |-> "B"], [identifier |-> "", id |-> "B"] }

SelModParts ==
    { <<>>, [modified |-> M1], [modified |-> << " ", "m" >>], [modified |-> M2] }

SelMediaParts ==
    { <<>>, [mediaType |-> TextCsv], [mediaType |-> Pdf],
      [mediaType |-> << "T", "e", "x", "t", "/", "C", "S", "V" >>] }

SelUrlParts ==
    { <<>>, [downloadURL |-> U1, accessURL |-> U2], [accessURL |-> U2],
      [downloadURL |-> <<>>, accessURL |-> U3] }

SelDescriptors == { mp @@ up : mp \in SelMediaParts, up \in SelUrlParts }

SelDistParts ==
    { <<>> } \cup { [distribution |-> ds] : ds \in SeqsUpTo(SelDescriptors, MaxDists) }

SelItems == { ip @@ mp @@ dp : ip \in SelIdParts, mp \in SelModParts, dp \in SelDistParts }

\* stored records: {} , one with a modified stamp, one with an empty stamp
SelRecords == { <<>>, Record(M1, 0), Record(<<>>, 0) }

SelStates ==
    { DefaultState }
    \cup { [last_run |-> 0, datasets |-> [x \in {id} |-> rec]] :
             id \in {"A", "B", "unknown"}, rec \in SelRecords }

InitSelect ==
    /\ MainOff
    /\ fin \in [item : SelItems, state : SelStates]
    /\ fout = <<>>
    /\ fpc = "in"

CallSelect ==
    /\ fpc = "in"
    /\ fin \in [item : SelItems, state : SelStates]
    /\ fout' = distributions_to_download(fin.item, fin.state)
    /\ fpc' = "out"
    /\ UNCHANGED << fin, envVars, mainVars, obsVars >>

SpecSelect == InitSelect /\ [][CallSelect]_vars

-----------------------------------------------------------------------------
(* The output file name of process_distribution (lines 171-172) computed   *)
(* on its own, on one URL                                                  *)

UrlChars == { "/", "?", ".", "a", "b" }

\* a work tuple's URL is never empty (line 143: `and url`)
Urls == SeqsUpTo(UrlChars, MaxUrl) \ { <<>> }

InitName ==
    /\ MainOff
    /\ fin \in Urls
    /\ fout = <<>>
    /\ fpc = "in"

CallOutName ==
    /\ fpc = "in"
    /\ fin \in Urls
    /\ fout' = OutName(fin)
    /\ fpc' = "out"
    /\ UNCHANGED << fin, envVars, mainVars, obsVars >>

SpecName == InitName /\ [][CallOutName]_vars

-----------------------------------------------------------------------------
(* to_snake_case *)

Digits == { "0", "1", "2", "3", "4", "5", "6", "7", "8", "9" }

IsLowerLetter(c) == \E i \in 1..26 : LowerLetters[i] = c

IsUpperLetter(c) == \E i \in 1..26 : UpperLetters[i] = c

\* [0-9a-zA-Z]
IsAsciiAlnum(c) == IsLowerLetter(c) \/ IsUpperLetter(c) \/ c \in Digits

\* unicodedata.normalize("NFKD", ch) of the non-ASCII characters of the model
\* ("'" stands for the combining acute accent U+0301)
Nfkd(c) ==
    CASE c = "é" -> << "e", "'" >>
      [] c = "É" -> << "E", "'" >>
      [] c = "²" -> << "2" >>
      [] OTHER   -> << c >>

\* unicodedata.combining(ch) != 0
IsCombining(c) == c = "'"

RECURSIVE NoDiacritics(_)
\* lines 74-77
NoDiacritics(label) ==
    IF label = <<>> THEN <<>>
    ELSE SelectSeq(Nfkd(Head(label)), LAMBDA ch : ~IsCombining(ch))
         \o NoDiacritics(Tail(label))

RECURSIVE SubNonAlnum(_, _)
\* _non_alnum.sub("_", s): every maximal run of other characters becomes one "_"
SubNonAlnum(str, inRun) ==
    IF str = <<>> THEN <<>>
    ELSE IF IsAsciiAlnum(Head(str))
         THEN << Head(str) >> \o SubNonAlnum(Tail(str), FALSE)
         ELSE (IF inRun THEN <<>> ELSE << "_" >>) \o SubNonAlnum(Tail(str), TRUE)

RECURSIVE Collapse(_)
\* _underscore_collapse.sub("_", s)
Collapse(str) ==
    IF Len(str) < 2 THEN str
    ELSE IF str[1] = "_" /\ str[2] = "_" THEN Collapse(Tail(str))
         ELSE << Head(str) >> \o Collapse(Tail(str))

\* variant, for comparison: the underscores at the ends are kept
StripUnderscoresKept(str) == str

RECURSIVE StripUnderscores(_)
\* .strip("_")
StripUnderscores(str) ==
    IF str # <<>> /\ Head(str) = "_" THEN StripUnderscores(Tail(str))
    ELSE IF str # <<>> /\ str[Len(str)] = "_"
         THEN StripUnderscores(SubSeq(str, 1, Len(str) - 1))
         ELSE str

Column == << "c", "o", "l", "u", "m", "n" >>

to_snake_case(label) ==
    LET s == StripUnderscores(Collapse(SubNonAlnum(Lower(NoDiacritics(label)), FALSE)))
    IN  IF s # <<>> THEN s ELSE Column

-----------------------------------------------------------------------------
(* to_snake_case called on its own, on one label, and again on its result *)

LabelChars == { "a", "B", "1", "_", " ", "é", "É", "²" }

Labels == SeqsUpTo(LabelChars, MaxLabel)

InitSnake ==
    /\ MainOff
    /\ fin \in Labels
    /\ fout = <<>>
    /\ fpc = "in"

CallSnake ==
    /\ fpc = "in"
    /\ fin \in Labels
    /\ fout' = [once |-> to_snake_case(fin), twice |-> to_snake_case(to_snake_case(fin))]
    /\ fpc' = "out"
    /\ UNCHANGED << fin, envVars, mainVars, obsVars >>

SpecSnake == InitSnake /\ [][CallSnake]_vars

-----------------------------------------------------------------------------
(* choose_text_encoding and the decoding of the payload (lines 84-89 and   *)
(* 167-168).  A payload is a run of `pad` ASCII bytes followed by the      *)
(* bytes of `tail`.  A byte is "a" (ASCII), "C3" (the lead byte of a       *)
(* two-byte character), "E2" (the lead byte of a three-byte character) or  *)
(* "A9" (a continuation byte).                                             *)

\* raw[:4096]
SampleBytes == 4096

Min(a, b) == IF a <= b THEN a ELSE b

\* raw[:n]
FirstBytes(raw, n) ==
    IF raw.pad >= n THEN [pad |-> n, tail |-> <<>>]
    ELSE [pad |-> raw.pad, tail |-> SubSeq(raw.tail, 1, Min(Len(raw.tail), n - raw.pad))]

\* the bytes of the UTF-8 character that starts bs, 0 when none starts there
CharLen(bs) ==
    CASE bs[1] = "a" -> 1
      [] bs[1] = "C3" /\ Len(bs) >= 2 /\ bs[2] = "A9" -> 2
      [] bs[1] = "E2" /\ Len(bs) >= 3 /\ bs[2] = "A9" /\ bs[3] = "A9" -> 3
      [] OTHER -> 0

\* the bytes the decoder gives up when no character starts at bs: a lead
\* byte with the continuation bytes that do follow it, or one stray byte
BadLen(bs) == IF bs[1] = "E2" /\ Len(bs) >= 2 /\ bs[2] = "A9" THEN 2 ELSE 1

RECURSIVE Utf8Valid(_)
\* bytes.decode("utf-8-sig") does not raise
Utf8Valid(bs) ==
    IF bs = <<>> THEN TRUE
    ELSE CharLen(bs) > 0 /\ Utf8Valid(SubSeq(bs, CharLen(bs) + 1, Len(bs)))

Utf8Char(bs) ==
    CASE CharLen(bs) = 1 -> "a"
      [] CharLen(bs) = 2 -> "é"
      [] OTHER -> "U+2A69"

RECURSIVE Utf8Decode(_)
\* bytes.decode("utf-8-sig", errors="replace")
Utf8Decode(bs) ==
    IF bs = <<>> THEN <<>>
    ELSE IF CharLen(bs) > 0
         THEN << Utf8Char(bs) >> \o Utf8Decode(SubSeq(bs, CharLen(bs) + 1, Len(bs)))
         ELSE << "U+FFFD" >> \o Utf8Decode(SubSeq(bs, BadLen(bs) + 1, Len(bs)))

Latin1Char(b) ==
    CASE b = "a" -> "a"
      [] b = "C3" -> "Ã"
      [] b = "E2" -> "â"
      [] OTHER -> "©"

\* bytes.decode("latin-1")
Latin1Decode(bs) == [i \in 1..Len(bs) |-> Latin1Char(bs[i])]

\* lines 84-89; the ASCII bytes of the run never fail to decode
choose_text_encoding(sample) ==
    IF Utf8Valid(sample.tail) THEN "utf-8-sig" ELSE "latin-1"

\* line 168: raw.decode(encoding, errors="replace"); the run of ASCII bytes
\* decodes to as many characters under both encodings
Decode(raw, encoding) ==
    [pad |-> raw.pad,
     tail |-> IF encoding = "utf-8-sig" THEN Utf8Decode(raw.tail)
              ELSE Latin1Decode(raw.tail)]

ByteValues == { "a", "C3", "E2", "A9" }

Payloads ==
    [pad : {0} \cup (SampleBytes - MaxBytes)..SampleBytes,
     tail : SeqsUpTo(ByteValues, MaxBytes)]

InitDecode ==
    /\ MainOff
    /\ fin \in Payloads
    /\ fout = <<>>
    /\ fpc = "in"

\* lines 167-168
CallDecode ==
    /\ fpc = "in"
    /\ fin \in Payloads
    /\ fout' = [encoding |-> choose_text_encoding(FirstBytes(fin, SampleBytes)),
                text |-> Decode(fin, choose_text_encoding(FirstBytes(fin, SampleBytes)))]
    /\ fpc' = "out"
    /\ UNCHANGED << fin, envVars, mainVars, obsVars >>

SpecDecode == InitDecode /\ [][CallDecode]_vars

-----------------------------------------------------------------------------
(* The CSV rewrite of process_distribution, lines 176-185 *)

\* str.splitlines(): the lines without their terminators
RECURSIVE SplitLines(_, _)
SplitLines(text, cur) ==
    IF text = <<>> THEN (IF cur # <<>> THEN << cur >> ELSE <<>>)
    ELSE IF Head(text) = "\n"
         THEN << cur >> \o SplitLines(Tail(text), <<>>)
         ELSE SplitLines(Tail(text), Append(cur, Head(text)))

\* csv.reader (dialect excel, not strict): the parser's state is
\* [st, field, row]; "EOL" is the end-of-line mark the reader feeds the
\* parser after the characters of each line.
ParserStart == [st |-> "START_RECORD", field |-> <<>>, row |-> <<>>]

SaveField(ps, next) == [st |-> next, field |-> <<>>, row |-> Append(ps.row, ps.field)]

AddChar(ps, c, next) == [ps EXCEPT !.st = next, !.field = Append(@, c)]

AfterLineEnd(c) == IF c = "EOL" THEN "START_RECORD" ELSE "EAT_CRNL"

IsLineEnd(c) == c \in {"\n", "\r", "EOL"}

StartField(ps, c) ==
    IF IsLineEnd(c) THEN SaveField(ps, AfterLineEnd(c))
    ELSE IF c = "\"" THEN [ps EXCEPT !.st = "IN_QUOTED_FIELD"]
    ELSE IF c = "," THEN SaveField(ps, "START_FIELD")
    ELSE AddChar(ps, c, "IN_FIELD")

\* parse_process_char of _csv.c
ProcessChar(ps, c) ==
    CASE ps.st = "START_RECORD" ->
            IF c = "EOL" THEN ps
            ELSE IF c \in {"\n", "\r"} THEN [ps EXCEPT !.st = "EAT_CRNL"]
            ELSE StartField(ps, c)
      [] ps.st = "START_FIELD" -> StartField(ps, c)
      [] ps.st = "IN_FIELD" ->
            IF IsLineEnd(c) THEN SaveField(ps, AfterLineEnd(c))
            ELSE IF c = "," THEN SaveField(ps, "START_FIELD")
            ELSE AddChar(ps, c, "IN_FIELD")
      [] ps.st = "IN_QUOTED_FIELD" ->
            IF c = "EOL" THEN ps
            ELSE IF c = "\"" THEN [ps EXCEPT !.st = "QUOTE_IN_QUOTED_FIELD"]
            ELSE AddChar(ps, c, "IN_QUOTED_FIELD")
      [] ps.st = "QUOTE_IN_QUOTED_FIELD" ->
            IF c = "\"" THEN AddChar(ps, c, "IN_QUOTED_FIELD")
            ELSE IF c = "," THEN SaveField(ps, "START_FIELD")
            ELSE IF IsLineEnd(c) THEN SaveField(ps, AfterLineEnd(c))
            ELSE AddChar(ps, c, "IN_FIELD")
      [] OTHER ->          \* EAT_CRNL
            IF c = "EOL" THEN [ps EXCEPT !.st = "START_RECORD"] ELSE ps

RECURSIVE ProcessLine(_, _)
ProcessLine(ps, line) ==
    IF line = <<>> THEN ProcessChar(ps, "EOL")
    ELSE ProcessLine(ProcessChar(ps, Head(line)), Tail(line))

RECURSIVE ReadRows(_, _)
\* Reader_iternext over the lines: a record ends when the parser is back at
\* START_RECORD after a line; when the lines run out inside a quoted field
\* the record ends there.
ReadRows(lines, ps) ==
    IF lines = <<>>
    THEN IF ps.field # <<>> \/ ps.st = "IN_QUOTED_FIELD"
         THEN << Append(ps.row, ps.field) >>
         ELSE <<>>
    ELSE LET after == ProcessLine(ps, Head(lines))
         IN  IF after.st = "START_RECORD"
             THEN << after.row >> \o ReadRows(Tail(lines), ParserStart)
             ELSE ReadRows(Tail(lines), after)

\* line 177: csv.reader(text.splitlines())
reader(text) == ReadRows(SplitLines(text, <<>>), ParserStart)

\* lines 180-185: the rows handed to writer.writerow, in order
WrittenRows(text) ==
    [i \in 1..Len(reader(text)) |->
        IF i = 1
        THEN [j \in 1..Len(reader(text)[1]) |-> to_snake_case(reader(text)[1][j])]
        ELSE reader(text)[i]]

-----------------------------------------------------------------------------
(* The CSV rewrite called on its own, on one decoded payload *)

CsvChars == { "a", "B", ",", "\"", "\n" }

CsvTexts == SeqsUpTo(CsvChars, MaxText)

InitCsv ==
    /\ MainOff
    /\ fin \in CsvTexts
    /\ fout = <<>>
    /\ fpc = "in"

CallRewrite ==
    /\ fpc = "in"
    /\ fin \in CsvTexts
    /\ fout' = WrittenRows(fin)
    /\ fpc' = "out"
    /\ UNCHANGED << fin, envVars, mainVars, obsVars >>

SpecCsv == InitCsv /\ [][CallRewrite]_vars

-----------------------------------------------------------------------------
(* Claims *)

\* no two themed items of the catalog carry the same dataset id
DistinctIds ==
    \A i, j \in 1..Len(FilterHospitals(catalog)) :
        DsId(FilterHospitals(catalog)[i]) = DsId(FilterHospitals(catalog)[j]) => i = j

\* C1: when a run has completed and saved Run-State, the next run against the
\* identical catalog launches no task, whatever the catalog (items without an
\* identifier, items sharing one) and whatever Run-State the first run found.
C1_RepeatedRunSkips ==
    (run >= 2 /\ history[run - 1].outcome = "done") => tasks = <<>>


\* C2: at most K tasks are between issuing their download request and its
\* result or failure, and each of them holds a slot of the gate that it took
\* before issuing the request (the slots taken are exactly the tasks in flight).
C2_ConcurrencyBound ==
    /\ Cardinality(InFlight) <= K
    /\ tasks # <<>> => (sem >= 0 /\ K - sem = Cardinality(InFlight))

C2_Witness == Cardinality(InFlight) = K /\ Waiting # {}

\* the only failures the run has met are failed downloads
OnlyDownloadFailures == \A t \in TaskIds : tasks[t].env \in {"none", "dlfail", "ok"}

CompleteOutput(url) ==
    /\ outFiles[OutName(url)].kind = "csv"
    /\ outFiles[OutName(url)].complete
    /\ outFiles[OutName(url)].by[1] = run

\* C3: when the only failures are failed downloads, every task whose
\* download returned has produced its output file, every failed download has
\* logged exactly one error line and no other task logged one, no task was
\* cancelled or raised, and main() goes on from gather to the save.
C3_PartialFailureIsolation ==
    OnlyDownloadFailures =>
        /\ \A t \in TaskIds :
              /\ tasks[t].env = "ok" =>
                    tasks[t].res = "path" /\ CompleteOutput(tasks[t].url)
              /\ tasks[t].env = "dlfail" =>
                    tasks[t].res = "none" /\ tasks[t].errs = 1
              /\ tasks[t].env # "dlfail" => tasks[t].errs = 0
              /\ tasks[t].res \notin {"raised", "cancelled"}
        /\ mainpc \notin {"unwind", "aborted"}
        /\ (mainpc = "gather" /\ AllDone) => ENABLED GatherReturns

C3_Witness ==
    /\ mainpc = "done"
    /\ OnlyDownloadFailures
    /\ \E t, u \in TaskIds : tasks[t].env = "dlfail" /\ tasks[u].env = "ok"

\* C4: whatever step of a task fails (the download, creating the output
\* directory, opening, parsing, writing), the task ends with 'no output' and
\* one logged error line, and main() is never left by an exception of a task.
C4_NoFailureEscapes ==
    /\ \A t \in TaskIds :
          tasks[t].env \notin {"none", "ok"} =>
              tasks[t].res = "none" /\ tasks[t].errs = 1
    /\ mainpc \notin {"unwind", "aborted"}

\* C5: whatever save_state has done and wherever the process was killed, the
\* state file holds what it held when the run started or the complete new
\* Run-State; a file written in part exists only at the temporary path.
C5_AtomicSave ==
    /\ \/ disk[STATE_FILE] = initDisk[STATE_FILE]
       \/ disk[STATE_FILE] = JsonFile(state, 2) /\ mainpc = "done"
    /\ \A f \in DOMAIN disk :
          (disk[f].kind = "json" /\ disk[f].written < 2) => f = TmpOf(STATE_FILE)

C5_Witness ==
    /\ mainpc = "crashed"
    /\ disk[TmpOf(STATE_FILE)].kind = "json"
    /\ disk[TmpOf(STATE_FILE)].written = 1
    /\ disk[STATE_FILE].kind = "json"

\* C6: after a completed run, the saved record of the dataset id of every
\* task whose download failed holds the modified value the task was launched
\* with.
C6_FailedDownloadKeepsStamp ==
    mainpc = "done" =>
        \A t \in TaskIds :
            tasks[t].env = "dlfail" =>
                /\ tasks[t].id \in DOMAIN disk[STATE_FILE].val.datasets
                /\ disk[STATE_FILE].val.datasets[tasks[t].id].modified = tasks[t].modified

\* C7: save_state is called at most once in a run, and only when every task
\* has completed and last_run holds this run's time; the disk changes only
\* through that call.
C7_SaveOnceAfterAll ==
    /\ saves <= 1
    /\ saves = 1 => (AllDone /\ state.last_run = run)
    /\ disk # initDisk => saves = 1

C7_Witness ==
    /\ mainpc = "done"
    /\ saves = 1
    /\ \E t, u \in TaskIds : tasks[t].res = "none" /\ tasks[u].res = "path"

\* C9: when the state file does not parse, no HTTP request is issued; when
\* the catalog request fails, no task is created; in both cases save_state
\* is not called and the disk is as the run found it.
C9_FatalFailuresLeaveDisk ==
    /\ LoadFails(initDisk[STATE_FILE]) =>
          httpGets = 0 /\ tasks = <<>> /\ saves = 0 /\ disk = initDisk
    /\ ~catalogOk => tasks = <<>> /\ saves = 0 /\ disk = initDisk

C9_Witness ==
    /\ mainpc = "fetch_failed"
    /\ httpGets = 1
    /\ catalog # <<>>
    /\ initDisk[STATE_FILE].kind = "json"


\* the URLs of a list of work tuples
UrlsOf(tuples) == [i \in 1..Len(tuples) |-> tuples[i][1]]

\* a descriptor as the claim reads it: CSV by its lowercased media type, with
\* a non-empty URL, the downloadURL if it has one and the accessURL otherwise
ClaimEligible(d) ==
    /\ Lower(Get(d, "mediaType", <<>>)) = TextCsv
    /\ (Get(d, "downloadURL", <<>>) # <<>> \/ Get(d, "accessURL", <<>>) # <<>>)

ClaimUrl(d) ==
    IF Get(d, "downloadURL", <<>>) # <<>> THEN d.downloadURL ELSE d.accessURL

RECURSIVE ClaimUrls(_)
ClaimUrls(ds) ==
    IF ds = <<>> THEN <<>>
    ELSE (IF ClaimEligible(Head(ds)) THEN << ClaimUrl(Head(ds)) >> ELSE <<>>)
         \o ClaimUrls(Tail(ds))

\* Run-State holds a record for the item's id whose stored modified is `modified`
StoredEquals(st, item, modified) ==
    /\ DsId(item) \in DOMAIN st.datasets
    /\ "modified" \in DOMAIN st.datasets[DsId(item)]
    /\ st.datasets[DsId(item)].modified = modified

\* what the call is to return when the item's modified is taken to be `modified`
SelectAnswers(modified) ==
    fpc = "out" =>
        IF StoredEquals(fin.state, fin.item, modified)
        THEN fout = <<>>
        ELSE /\ UrlsOf(fout) = ClaimUrls(Get(fin.item, "distribution", <<>>))
             /\ \A i \in 1..Len(fout) : fout[i][2] = DsId(fin.item)

\* C8 as stated: the empty list when the stored modified equals the item's
\* modified (the field as the catalog gives it, the empty string when absent),
\* otherwise one tuple per eligible descriptor, in order.
C8_SelectAsStated == SelectAnswers(Get(fin.item, "modified", <<>>))

\* C8 amended: the same, with the item's modified taken after trimming its
\* leading and trailing whitespace, as the code compares and stores it.
C8_SelectTrimmed == SelectAnswers(Strip(Get(fin.item, "modified", <<>>)))

C8_Witness ==
    /\ fpc = "out"
    /\ fout = <<>>
    /\ Get(fin.item, "modified", <<>>) # Strip(Get(fin.item, "modified", <<>>))
    /\ Len(ClaimUrls(Get(fin.item, "distribution", <<>>))) = 2


\* the lines of a text with their terminators kept, as a file opened with
\* newline="" yields them
RECURSIVE KeepEndLines(_, _)
KeepEndLines(text, cur) ==
    IF text = <<>> THEN (IF cur # <<>> THEN << cur >> ELSE <<>>)
    ELSE IF Head(text) = "\n"
         THEN << Append(cur, "\n") >> \o KeepEndLines(Tail(text), <<>>)
         ELSE KeepEndLines(Tail(text), Append(cur, Head(text)))

\* the records of the source: the CSV reader over the text itself, where a
\* newline inside a quoted field belongs to the field
SourceRows(text) == ReadRows(KeepEndLines(text, <<>>), ParserStart)

\* C10: the rows written are the rows of the source, the first one passed
\* through to_snake_case field by field and every later one unchanged (same
\* fields, same values, also with commas or newlines inside quoted fields).
C10_RowFidelity ==
    fpc = "out" =>
        /\ Len(fout) = Len(SourceRows(fin))
        /\ \A i \in 2..Len(fout) : fout[i] = SourceRows(fin)[i]


\* the text after the last "/" of a path (empty when the path ends in "/")
RECURSIVE FinalSegment(_, _)
FinalSegment(path, cur) ==
    IF path = <<>> THEN cur
    ELSE IF Head(path) = "/" THEN FinalSegment(Tail(path), <<>>)
         ELSE FinalSegment(Tail(path), Append(cur, Head(path)))

\* the file name the claim gives a URL
ClaimName(url) ==
    LET seg == FinalSegment(BeforeQuery(url), <<>>)
    IN  (IF seg = <<>> THEN << "file" >> ELSE StemOfName(seg)) \o << "__snake.csv" >>

\* C11: the output file name is the stem of the final path segment of the URL
\* cut at its first "?", followed by "__snake.csv", and "file__snake.csv" when
\* the path ends in "/" (no final segment).
C11_OutputName == fpc = "out" => fout = ClaimName(fin)


\* a lowercase ASCII letter, a digit or an underscore
IsSnakeChar(c) == IsLowerLetter(c) \/ c \in Digits \/ c = "_"

\* C12: to_snake_case applied to its own result gives that result again, and
\* the result is not empty, holds only lowercase ASCII letters, digits and
\* underscores, and has no underscore at either end nor two in a row.
C12_SnakeIdempotent ==
    fpc = "out" =>
        /\ fout.twice = fout.once
        /\ fout.once # <<>>
        /\ \A i \in 1..Len(fout.once) : IsSnakeChar(fout.once[i])
        /\ fout.once[1] # "_" /\ fout.once[Len(fout.once)] # "_"
        /\ \A i \in 1..(Len(fout.once) - 1) :
              ~(fout.once[i] = "_" /\ fout.once[i + 1] = "_")

C12_Witness ==
    /\ fpc = "out"
    /\ fin = << "_", "É", " ", "²" >>
    /\ fout.once = << "e", "_", "2" >>


\* the Run-State the run loaded
Loaded == load_state(initDisk[STATE_FILE])

HasLoaded == mainpc # "start" /\ ~LoadFails(initDisk[STATE_FILE])

\* item i of the catalog is the only one with its id, and the loaded
\* Run-State holds a record of that id with the item's modified value
UnchangedAlone(i) ==
    /\ \A j \in 1..Len(catalog) : DsId(catalog[j]) = DsId(catalog[i]) => j = i
    /\ DsId(catalog[i]) \in DOMAIN Loaded.datasets
    /\ Loaded.datasets[DsId(catalog[i])].modified = Get(catalog[i], "modified", <<>>)

\* C13: for a catalog item that alone carries its id and whose modified
\* equals the one of the loaded record of that id, the record (modified and
\* last_seen) stays the loaded one, in memory and in the saved file, and no
\* task is launched for that id.
C13_UnchangedUntouched ==
    HasLoaded =>
        \A i \in 1..Len(catalog) :
            UnchangedAlone(i) =>
                /\ state.datasets[DsId(catalog[i])] = Loaded.datasets[DsId(catalog[i])]
                /\ \A t \in TaskIds : tasks[t].id # DsId(catalog[i])
                /\ mainpc = "done" =>
                      disk[STATE_FILE].val.datasets[DsId(catalog[i])]
                          = Loaded.datasets[DsId(catalog[i])]

C13_Witness ==
    /\ mainpc = "done"
    /\ tasks # <<>>
    /\ \E i \in 1..Len(catalog) : UnchangedAlone(i) /\ IsHospital(catalog[i])
    /\ \E id \in DOMAIN disk[STATE_FILE].val.datasets :
          disk[STATE_FILE].val.datasets[id].last_seen = run


\* before the step no task has left its creation state (none has asked for
\* the gate or issued its request)
NoTaskStarted == \A t \in TaskIds : tasks[t].pc = "new"

\* after the step a task has taken a step only if the fetch, the filter and
\* the scheduling loop over every item are over
StartedOnlyAfterScheduling ==
    (\E t \in 1..Len(tasks') : tasks'[t].pc # "new") =>
        (mainpc' \notin {"start", "fetch", "schedule"} /\ idx' > Len(items'))

\* the step is one of main() itself at a point where it touches Run-State
ByOrchestrator ==
    /\ mainpc \in {"start", "schedule", "stamp"}
    /\ \A t \in TaskIds : tasks'[t] = tasks[t]

\* C14 as stated: no task takes a step before the fetch, the filter and the
\* scheduling of every item are over, and every change of Run-State is made
\* by main() and comes before the first download.
C14_AsStated ==
    [][ /\ StartedOnlyAfterScheduling
        /\ state' # state => (ByOrchestrator /\ NoTaskStarted) ]_vars

\* C14 amended: the same for the dataset records of Run-State; last_run is
\* set by main() once, after every task has completed.
C14_DecideBeforeDo ==
    [][ /\ StartedOnlyAfterScheduling
        /\ state' # state => ByOrchestrator
        /\ state'.datasets # state.datasets => NoTaskStarted
        /\ state'.last_run # state.last_run => (mainpc = "stamp" /\ AllDone) ]_vars

C14_Witness ==
    /\ mainpc = "done"
    /\ \E t \in TaskIds : tasks[t].res = "path"
    /\ state.datasets # Loaded.datasets
    /\ state.last_run = run


\* C15: once tasks are launched, every one of them completes, the slots are
\* all free again (each task gave its slot back, after a failed download as
\* after one that returned), and the run saves Run-State.
C15_RunCompletes ==
    (mainpc = "gather") ~> (mainpc = "done" /\ AllDone /\ sem = K /\ saves = 1)


\* tasks t and u write to the same output path
SamePath(t, u) == OutName(tasks[t].url) = OutName(tasks[u].url)

\* the file holds the complete output of task w and nothing else
CompleteOutputOf(file, w) ==
    /\ file.kind = "csv"
    /\ file.complete
    /\ file.rows = << << run, w >>, << run, w >> >>

\* C16 as stated: when two launched distributions map to the same output
\* path, the file at that path after the run is the complete output of
\* exactly one of them.
C16_AsStated ==
    mainpc = "done" =>
        \A t, u \in TaskIds :
            (t # u /\ SamePath(t, u)) =>
                \E w \in TaskIds :
                    /\ SamePath(w, t)
                    /\ CompleteOutputOf(outFiles[OutName(tasks[t].url)], w)

\* C16 amended: a file written in the run holds rows of one task only, the
\* last one that opened it and that has run to its end (no file is seen
\* while its writer is still at work); it is the complete output of that
\* task exactly when the task returned its path.
C16_NoMixture ==
    \A n \in DOMAIN outFiles :
        outFiles[n].kind = "csv" =>
            /\ outFiles[n].by[1] = run
            /\ outFiles[n].by[2] \in TaskIds
            /\ OutName(tasks[outFiles[n].by[2]].url) = n
            /\ tasks[outFiles[n].by[2]].pc = "done"
            /\ \A i \in 1..Len(outFiles[n].rows) : outFiles[n].rows[i] = outFiles[n].by
            /\ outFiles[n].complete <=> tasks[outFiles[n].by[2]].res = "path"
            /\ outFiles[n].complete => CompleteOutputOf(outFiles[n], outFiles[n].by[2])

C16_Witness ==
    /\ mainpc = "done"
    /\ \E t, u \in TaskIds :
          /\ t # u /\ SamePath(t, u)
          /\ tasks[t].res = "path" /\ tasks[u].res = "path"
          /\ CompleteOutputOf(outFiles[OutName(tasks[t].url)], t)

\* task t ends in this step and returns 'no output'
ReturnsNoOutput(t) == tasks[t].pc # "done" /\ tasks'[t].pc = "done" /\ tasks'[t].res = "none"

\* C17: a task that returns 'no output' leaves the output directory as it
\* was: a file that existed at its output path keeps its content and no file
\* written in part is left.
C17_NoOutputLeavesDir ==
    [][ \A t \in TaskIds : (t \in 1..Len(tasks') /\ ReturnsNoOutput(t)) => outFiles' = outFiles ]_vars


\* a task was launched in this run for dataset id `id`
LaunchedFor(id) == \E t \in TaskIds : tasks[t].id = id

\* Run-State st holds for `id` what the loaded Run-State held (a record
\* equal to the loaded one, or none as there was none)
AsLoaded(st, id) ==
    /\ id \in DOMAIN st.datasets <=> id \in DOMAIN Loaded.datasets
    /\ id \in DOMAIN st.datasets => st.datasets[id] = Loaded.datasets[id]

\* the dataset of themed item i has no eligible CSV distribution (in none of
\* the catalog items of its id) and the loaded Run-State does not make it
\* unchanged
ChangedWithoutCsv(i) ==
    /\ \A j \in 1..Len(items) :
          DsId(items[j]) = DsId(items[i]) =>
              \A k \in 1..Len(Get(items[j], "distribution", <<>>)) :
                  ~IsEligible(items[j].distribution[k])
    /\ ~IsUnchanged(Loaded, DsId(items[i]), DsModified(items[i]))

\* C18: Run-State gets a record for a dataset id in a run (last_seen of this
\* run) exactly when a task was launched for that id in the run, every other
\* id keeps what was loaded; and a changed or new dataset without eligible
\* CSV distribution gets no task and no new or updated record, in memory or
\* in the saved file, so that the next run evaluates it again.
C18_RecordIffLaunched ==
    HasLoaded =>
        /\ \A id \in DOMAIN state.datasets \cup { tasks[t].id : t \in TaskIds } :
              IF LaunchedFor(id)
              THEN id \in DOMAIN state.datasets /\ state.datasets[id].last_seen = run
              ELSE AsLoaded(state, id)
        /\ \A i \in 1..Len(items) :
              ChangedWithoutCsv(i) =>
                  /\ ~LaunchedFor(DsId(items[i]))
                  /\ AsLoaded(state, DsId(items[i]))
                  /\ mainpc = "done" =>
                        /\ AsLoaded(disk[STATE_FILE].val, DsId(items[i]))
                        /\ ~IsUnchanged(disk[STATE_FILE].val, DsId(items[i]),
                                        DsModified(items[i]))

C18_Witness ==
    /\ mainpc = "done"
    /\ tasks # <<>>
    /\ \E i \in 1..Len(items) :
          ChangedWithoutCsv(i) /\ DsId(items[i]) \in DOMAIN Loaded.datasets


\* C19: a payload that is valid UTF-8 over its whole length is decoded as
\* UTF-8, not as Latin-1, whatever its length and wherever its multi-byte
\* characters fall relative to the end of the sample.
C19_ValidUtf8DecodedAsUtf8 ==
    (fpc = "out" /\ Utf8Valid(fin.tail)) =>
        /\ fout.encoding = "utf-8-sig"
        /\ fout.text = [pad |-> fin.pad, tail |-> Utf8Decode(fin.tail)]

====
